---- MODULE Spec2Model ----
(***************************************************************************)
(* State-machine model of cascade_at.collector.measurement_inputs          *)
(* (class MeasurementInputs): the raw-source slots, the statistical        *)
(* configuration maps, the assembled dismod_data frame and the             *)
(* covariate reference / max-difference query.                             *)
(*                                                                         *)
(* Conventions                                                             *)
(*   - Python None is the empty tuple <<>>; a set slot is the 1-tuple      *)
(*     <<value>>.                                                          *)
(*   - A float is Num(v) (v an integer number of units) or NaN.            *)
(*   - A DataFrame is [cols |-> set of column names, rows |-> sequence of  *)
(*     functions from cols to values].                                     *)
(*   - An exception is the name of its class in `raised' ("" = the call    *)
(*     returned).                                                          *)
(***************************************************************************)
EXTENDS Integers, Sequences, FiniteSets, TLC

VARIABLES
    self,       \* the MeasurementInputs object: a record of its attributes
    xw_rows,    \* number of rows the crosswalk version holds remotely
    call        \* the last call made on the object:
                \* [op, arg, raised, ref_max, counts, events]

vars == <<self, xw_rows, call>>

----
\* Value conventions

None == <<>>
Some(x) == <<x>>
IsNone(o) == o = <<>>

NaN == [nan |-> TRUE, val |-> 0]
Num(v) == [nan |-> FALSE, val |-> v]
Abs(x) == IF x < 0 THEN -x ELSE x

RECURSIVE SeqToSet(_)
SeqToSet(s) == IF s = <<>> THEN {} ELSE {Head(s)} \cup SeqToSet(Tail(s))

----
\* Bounds of the model and the remote fixture the adapters read

MaxXwRows == 2      \* the crosswalk version holds 0..MaxXwRows rows
AsdrRows == 2       \* rows of all-cause mortality
CsmrRows == 1       \* rows of cause-specific mortality

\* The location hierarchy: 1 -> {2, 3}, 2 -> {4}
Locations == {1, 2, 3, 4}
DagEdges == {<<1, 2>>, <<1, 3>>, <<2, 4>>}

\* Covariate ids the constructor may be given
CovariateLists == {<<>>, <<57, 33>>, <<57, 12>>}

\* Remote covariate series: 57 has records everywhere, 33 only at location 4,
\* 12 has no records at all.
RemoteCovariate(c) ==
    IF c = 57 THEN
        << [location_id |-> 1, year_id |-> 1990, mean_value |-> 4],
           [location_id |-> 1, year_id |-> 1991, mean_value |-> 8],
           [location_id |-> 2, year_id |-> 1990, mean_value |-> 9],
           [location_id |-> 3, year_id |-> 1990, mean_value |-> 1],
           [location_id |-> 4, year_id |-> 1990, mean_value |-> 20] >>
    ELSE IF c = 33 THEN
        << [location_id |-> 4, year_id |-> 1990, mean_value |-> 7] >>
    ELSE << >>

RemotePopulation ==
    << [location_id |-> 1, year_id |-> 1990, population |-> 10],
       [location_id |-> 1, year_id |-> 1991, population |-> 10],
       [location_id |-> 2, year_id |-> 1990, population |-> 5],
       [location_id |-> 3, year_id |-> 1990, population |-> 5],
       [location_id |-> 4, year_id |-> 1990, population |-> 2] >>

XwMeasures == <<"prevalence", "relrisk">>

ObsCols == {"location_id", "sex_id", "age_lower", "age_upper", "time_lower",
            "time_upper", "measure", "hold_out", "age_group_id"}

ObsRow(i, measure) ==
    [location_id |-> ((i - 1) % 4) + 1,
     sex_id |-> ((i - 1) % 3) + 1,
     age_lower |-> Num(i),
     age_upper |-> Num(i + 5),
     time_lower |-> Num(1990),
     time_upper |-> Num(1990 + (i % 2)),
     measure |-> measure,
     hold_out |-> IF i % 2 = 1 THEN NaN ELSE Num(1),
     age_group_id |-> 22]

Frame(cols, rows) == [cols |-> cols, rows |-> rows]

RemoteCrosswalk(n) ==
    Frame(ObsCols, [i \in 1..n |-> ObsRow(i, XwMeasures[((i - 1) % 2) + 1])])
RemoteAsdr == Frame(ObsCols, [i \in 1..AsdrRows |-> ObsRow(i, "mtall")])
RemoteCsmr == Frame(ObsCols, [i \in 1..CsmrRows |-> ObsRow(i + 1, "mtspecific")])

----
\* MeasurementInputs.__init__

\* One step of a call, in the order the call took it: the statement or
\* collaborator reached, and the covariate it was for (0 when for none)
Event(step, covariate_id) == [step |-> step, covariate_id |-> covariate_id]

\* A call record: the operation, its argument, the exception it raised ("" when
\* it returned), the table get_covariate_reference_max_diff returned, the
\* row counts the three configure_for_dismod calls returned, and the steps the
\* call took
Call(op, a, raised, ref_max, counts, events) ==
    [op |-> op, arg |-> a, raised |-> raised, ref_max |-> ref_max,
     counts |-> counts, events |-> events]

Init ==
    /\ \E ids \in CovariateLists :
          self = [country_covariate_id |-> ids,
                  asdr |-> None, csmr |-> None, population |-> None,
                  data |-> None, location_dag |-> None,
                  data_eta |-> None, density |-> None, nu |-> None,
                  measures_to_exclude |-> None,
                  dismod_data |-> None, covariate_data |-> None,
                  country_covariate_data |-> None, covariate_specs |-> None]
    /\ xw_rows \in 0..MaxXwRows
    /\ call = Call("__init__", None, "", None, None, <<>>)

----
\* MeasurementInputs.get_raw_inputs

\* The adapters in the order the method calls them
Adapters == <<"asdr", "csmr", "data", "covariate_data", "location_dag", "population">>

\* What each adapter returns when its source is available
Fetched(a) ==
    CASE a = "asdr" -> RemoteAsdr
      [] a = "csmr" -> RemoteCsmr
      [] a = "data" -> RemoteCrosswalk(xw_rows)
      [] a = "covariate_data" ->
            [i \in 1..Len(self.country_covariate_id) |->
                [covariate_id |-> self.country_covariate_id[i],
                 raw |-> RemoteCovariate(self.country_covariate_id[i])]]
      [] a = "location_dag" -> [dag |-> DagEdges]
      [] a = "population" -> [raw |-> RemotePopulation]

\* Slot i after a call in which adapter number `fails' (0: none) is unavailable:
\* the assignments before the failing adapter have happened, the rest have not.
SlotAfter(i, old, fails) ==
    IF fails = 0 \/ i < fails THEN Some(Fetched(Adapters[i])) ELSE old

\* The fetches a call starts, the unavailable one being the last; the
\* covariate adapter is called once per covariate of the constructor
RECURSIVE FetchEvents(_, _)
FetchEvents(i, fails) ==
    IF i > Len(Adapters) \/ (fails # 0 /\ i > fails) THEN <<>>
    ELSE (IF Adapters[i] = "covariate_data"
          THEN [k \in 1..Len(self.country_covariate_id) |->
                   Event("fetch", self.country_covariate_id[k])]
          ELSE <<Event("fetch", 0)>>)
         \o FetchEvents(i + 1, fails)

get_raw_inputs(fails) ==
    /\ self' = [self EXCEPT
                  !.asdr = SlotAfter(1, @, fails),
                  !.csmr = SlotAfter(2, @, fails),
                  !.data = SlotAfter(3, @, fails),
                  !.covariate_data = SlotAfter(4, @, fails),
                  !.location_dag = SlotAfter(5, @, fails),
                  !.population = SlotAfter(6, @, fails)]
    /\ call' = Call("get_raw_inputs", None,
                    IF fails = 0 THEN "" ELSE "SourceUnavailable", None, None,
                    FetchEvents(1, fails))
    /\ UNCHANGED xw_rows

----
\* The settings object handed to configure_inputs_for_dismod

\* make_integrand_map(): GBD measure id -> IntegrandEnum member (by its name)
integrand_map == (5 :> "prevalence") @@ (6 :> "Sincidence") @@ (7 :> "remission")

\* An IntegrandEnum member and a measure name (a str) are different dict keys,
\* also when the member's name is that str.
EnumKey(name) == [kind |-> "enum", name |-> name]
StrKey(name) == [kind |-> "str", name |-> name]

MeasureNames == {"prevalence", "Sincidence", "remission", "relrisk", "mtall", "mtspecific"}

EtaDataChoices == {None, Some(0), Some(3)}          \* unset, 0.0, a positive eta
ByIntegrandEtaChoices ==
    {<<>>,
     <<[integrand_measure_id |-> 5, value |-> 1]>>,
     <<[integrand_measure_id |-> 99, value |-> 1]>>}
DensityDataChoices == {None, Some(""), Some("log_gaussian")}
ByIntegrandDensityChoices ==
    {<<>>, <<[integrand_measure_id |-> 5, value |-> "students"]>>}
ExcludeChoices == {None, Some(<<5, 99>>)}

\* settings.country_covariate naming exactly the constructor's covariates
OwnCountryCovariates ==
    [i \in 1..Len(self.country_covariate_id) |->
        [country_covariate_id |-> self.country_covariate_id[i]]]

\* Settings with every optional field unset
BaseSettings ==
    [eta_data |-> None,
     data_eta_by_integrand |-> <<>>,
     data_density |-> None,
     data_density_by_integrand |-> <<>>,
     exclude_data_for_param |-> None,
     exclude_relative_risk |-> FALSE,
     students_dof |-> 5,
     log_students_dof |-> 6,
     country_covariate |-> OwnCountryCovariates]

\* The settings a call may be given: the base settings with one group of
\* fields set (eta, density, exclusions), or with a country covariate the
\* assembler was not constructed with
Settings ==
    {[BaseSettings EXCEPT !.eta_data = e, !.data_eta_by_integrand = b] :
        e \in EtaDataChoices, b \in ByIntegrandEtaChoices}
    \cup {[BaseSettings EXCEPT !.data_density = d, !.data_density_by_integrand = b] :
        d \in DensityDataChoices, b \in ByIntegrandDensityChoices}
    \cup {[BaseSettings EXCEPT !.exclude_data_for_param = x, !.exclude_relative_risk = r] :
        x \in ExcludeChoices, r \in BOOLEAN}
    \cup {[BaseSettings EXCEPT !.country_covariate =
              OwnCountryCovariates \o <<[country_covariate_id |-> 77]>>]}

\* settings.<group>.is_field_unset(name)
is_field_unset(field) == IsNone(field)

----
\* collections.defaultdict: a default and the items stored so far

DefaultDict(default) == [default |-> default, items |-> << >>]

\* d[key] = value
SetItem(d, key, value) ==
    [d EXCEPT !.items =
        [k \in DOMAIN d.items \cup {key} |->
            IF k = key THEN value ELSE d.items[k]]]

\* d.__getitem__(key): the stored value, or the default
GetItem(d, key) ==
    IF key \in DOMAIN d.items THEN d.items[key] ELSE d.default

\* d after d.__getitem__(key): a missing key is stored with the default
AfterGetItem(d, key) ==
    IF key \in DOMAIN d.items THEN d ELSE SetItem(d, key, d.default)

RECURSIVE AfterGetItems(_, _)
AfterGetItems(d, keys) ==
    IF keys = <<>> THEN d
    ELSE AfterGetItems(AfterGetItem(d, Head(keys)), Tail(keys))

\* A [raised, value] pair: what an expression raised ("" = nothing) or gave
Ok(v) == [raised |-> "", value |-> v]
Raise(e) == [raised |-> e, value |-> None]

\* for entry in by_integrand: d[self.integrand_map[entry.integrand_measure_id]] = conv(entry.value)
RECURSIVE SetByIntegrand(_, _, _)
SetByIntegrand(d, by_integrand, numeric) ==
    IF by_integrand = <<>> THEN Ok(d)
    ELSE LET e == Head(by_integrand) IN
         IF e.integrand_measure_id \notin DOMAIN integrand_map
         THEN Raise("KeyError")
         ELSE SetByIntegrand(
                 SetItem(d, EnumKey(integrand_map[e.integrand_measure_id]),
                         IF numeric THEN Num(e.value) ELSE e.value),
                 Tail(by_integrand), numeric)

\* data_eta_from_settings without the truthiness test on settings.eta.data
data_eta_any_set_default(settings) ==
    LET d == IF ~is_field_unset(settings.eta_data)
             THEN DefaultDict(Num(settings.eta_data[1]))
             ELSE DefaultDict(NaN)
    IN SetByIntegrand(d, settings.data_eta_by_integrand, TRUE)

\* MeasurementInputs.data_eta_from_settings
data_eta_from_settings(settings) ==
    LET d == IF ~is_field_unset(settings.eta_data) /\ settings.eta_data[1] # 0
             THEN DefaultDict(Num(settings.eta_data[1]))
             ELSE DefaultDict(NaN)
    IN SetByIntegrand(d, settings.data_eta_by_integrand, TRUE)

\* MeasurementInputs.density_from_settings
density_from_settings(settings) ==
    LET d == IF ~is_field_unset(settings.data_density) /\ settings.data_density[1] # ""
             THEN DefaultDict(settings.data_density[1])
             ELSE DefaultDict("gaussian")
    IN SetByIntegrand(d, settings.data_density_by_integrand, FALSE)

\* MeasurementInputs.nu_from_settings
nu_from_settings(settings) ==
    SetItem(SetItem(DefaultDict(NaN), StrKey("students"), Num(settings.students_dof)),
            StrKey("log_students"), Num(settings.log_students_dof))

\* MeasurementInputs.measures_to_exclude_from_settings
measures_to_exclude_from_settings(settings) ==
    LET ids == IF ~is_field_unset(settings.exclude_data_for_param)
               THEN settings.exclude_data_for_param[1] ELSE <<>>
        named == {integrand_map[ids[i]] :
                     i \in {j \in 1..Len(ids) : ids[j] \in DOMAIN integrand_map}}
    IN named \cup (IF settings.exclude_relative_risk THEN {"relrisk"} ELSE {})

----
\* pandas operations the assembler uses

\* pd.concat(frames, axis=0): every row of every frame, in order; a column a
\* frame lacks is NaN in its rows
RECURSIVE ConcatCols(_)
ConcatCols(frames) ==
    IF frames = <<>> THEN {} ELSE Head(frames).cols \cup ConcatCols(Tail(frames))

RECURSIVE ConcatRows(_)
ConcatRows(frames) ==
    IF frames = <<>> THEN <<>> ELSE Head(frames).rows \o ConcatRows(Tail(frames))

WidenRow(r, cols) == r @@ [c \in cols \ DOMAIN r |-> NaN]

RECURSIVE WidenRows(_, _)
WidenRows(rows, cols) ==
    IF rows = <<>> THEN <<>>
    ELSE <<WidenRow(Head(rows), cols)>> \o WidenRows(Tail(rows), cols)

\* pd.concat that loses the last frame
ConcatWithoutLast(frames) ==
    LET kept == SubSeq(frames, 1, Len(frames) - 1)
    IN Frame(ConcatCols(frames), WidenRows(ConcatRows(kept), ConcatCols(frames)))

Concat(frames) ==
    Frame(ConcatCols(frames), WidenRows(ConcatRows(frames), ConcatCols(frames)))

\* df[name] = values (one value per row, in row order)
RECURSIVE SetColumnRows(_, _, _)
SetColumnRows(rows, name, values) ==
    IF rows = <<>> THEN <<>>
    ELSE <<(name :> Head(values)) @@ Head(rows)>>
         \o SetColumnRows(Tail(rows), name, Tail(values))

SetColumn(df, name, values) ==
    Frame(df.cols \cup {name}, SetColumnRows(df.rows, name, values))

\* df.drop([name], axis=1)
RECURSIVE DropColumnRows(_, _)
DropColumnRows(rows, name) ==
    IF rows = <<>> THEN <<>>
    ELSE <<[c \in DOMAIN Head(rows) \ {name} |-> Head(rows)[c]]>>
         \o DropColumnRows(Tail(rows), name)

DropColumn(df, name) == Frame(df.cols \ {name}, DropColumnRows(df.rows, name))

Column(df, name) == [i \in 1..Len(df.rows) |-> df.rows[i][name]]

\* Series.min() / Series.max() of floats: NaN entries are skipped, and the
\* result is NaN when nothing is left
Defined(xs) == {xs[i].val : i \in {j \in 1..Len(xs) : ~xs[j].nan}}
SeriesMin(xs) ==
    IF Defined(xs) = {} THEN NaN
    ELSE Num(CHOOSE m \in Defined(xs) : \A x \in Defined(xs) : m <= x)
SeriesMax(xs) ==
    IF Defined(xs) = {} THEN NaN
    ELSE Num(CHOOSE m \in Defined(xs) : \A x \in Defined(xs) : m >= x)

\* gbd_ids.SEX_MAP, in tenths: male 0.5, female -0.5, both 0.0
SEX_MAP == (1 :> 5) @@ (2 :> -5) @@ (3 :> 0)

----
\* Collaborators of the assembler

\* CrosswalkVersion.configure_for_dismod(measures_to_exclude): the rows of the
\* measures that are not excluded
CrosswalkConfigureForDismod(raw, excluded) ==
    Frame(raw.cols, SelectSeq(raw.rows, LAMBDA r : r.measure \notin excluded))

\* ASDR.configure_for_dismod(), CSMR.configure_for_dismod()
RateConfigureForDismod(raw) == raw

\* CovariateData.configure_for_dismod()
CovariateConfigureForDismod(c) == c.raw

\* CovariateSpecs(settings.country_covariate).covariate_specs: one country
\* covariate per entry of the settings, then the study covariates
CovariateSpecs(country_covariate) ==
    [i \in 1..Len(country_covariate) |->
        [study_country |-> "country",
         covariate_id |-> country_covariate[i].country_covariate_id,
         name |-> "c_" \o ToString(country_covariate[i].country_covariate_id)]]
    \o <<[study_country |-> "study", covariate_id |-> 0, name |-> "s_sex"],
         [study_country |-> "study", covariate_id |-> 0, name |-> "s_one"]>>

\* One row of get_interpolated_covariate_values: the population-weighted mean
\* of the covariate records of the row's location whose year bin [y, y + 1]
\* meets the row's time window; 0.0 when no record with population meets it.
Min2(a, b) == IF a < b THEN a ELSE b
Max2(a, b) == IF a > b THEN a ELSE b

Overlap(y, lo, hi) ==
    IF lo = hi THEN (IF y <= lo /\ lo < y + 1 THEN 1 ELSE 0)
    ELSE Max2(0, Min2(y + 1, hi) - Max2(y, lo))

PopulationAt(pop, loc, y) ==
    LET hit == {i \in 1..Len(pop) : pop[i].location_id = loc /\ pop[i].year_id = y}
    IN IF hit = {} THEN 0 ELSE pop[CHOOSE i \in hit : TRUE].population

RECURSIVE WeightedSum(_, _, _, _, _, _)
WeightedSum(cov, pop, loc, lo, hi, valued) ==
    IF cov = <<>> THEN 0
    ELSE LET r == Head(cov)
             w == IF r.location_id = loc
                  THEN Overlap(r.year_id, lo, hi) * PopulationAt(pop, loc, r.year_id)
                  ELSE 0
         IN (IF valued THEN w * r.mean_value ELSE w)
            + WeightedSum(Tail(cov), pop, loc, lo, hi, valued)

InterpolatedValue(loc, lo, hi, cov, pop) ==
    IF lo.nan \/ hi.nan THEN Num(0)
    ELSE LET total == WeightedSum(cov, pop, loc, lo.val, hi.val, FALSE)
         IN IF total = 0 THEN Num(0)
            ELSE Num(WeightedSum(cov, pop, loc, lo.val, hi.val, TRUE) \div total)

\* get_interpolated_covariate_values(data_df, covariate_df, population_df):
\* one value per row of data_df
get_interpolated_covariate_values(data_rows, cov, pop) ==
    [i \in 1..Len(data_rows) |->
        InterpolatedValue(data_rows[i].location_id,
                          data_rows[i].time_lower, data_rows[i].time_upper,
                          cov, pop)]

----
\* MeasurementInputs.interpolate_country_covariate_values: the frame after the
\* loop over the covariate specs, or the frame as the raising iteration left it
RECURSIVE interpolate_country_covariate_values(_, _, _, _)
interpolate_country_covariate_values(specs, df, ccd, pop) ==
    IF specs = <<>> THEN Ok(df)
    ELSE LET c == Head(specs) IN
         IF c.study_country # "country"
         THEN interpolate_country_covariate_values(Tail(specs), df, ccd, pop)
         ELSE IF c.covariate_id \notin DOMAIN ccd
         THEN [raised |-> "KeyError", value |-> df]
         ELSE IF IsNone(pop)
         THEN [raised |-> "AttributeError", value |-> df]
         ELSE interpolate_country_covariate_values(
                 Tail(specs),
                 SetColumn(df, c.name,
                           get_interpolated_covariate_values(
                               df.rows, ccd[c.covariate_id], pop[1].raw)),
                 ccd, pop)

\* A loop that invokes the engine a second time for every country covariate
RECURSIVE InterpolationCallsRepeated(_, _, _)
InterpolationCallsRepeated(specs, ccd, pop) ==
    IF specs = <<>> THEN <<>>
    ELSE LET c == Head(specs) IN
         IF c.study_country # "country"
         THEN InterpolationCallsRepeated(Tail(specs), ccd, pop)
         ELSE IF c.covariate_id \notin DOMAIN ccd \/ IsNone(pop) THEN <<>>
         ELSE <<Event("get_interpolated_covariate_values", c.covariate_id),
                Event("get_interpolated_covariate_values", c.covariate_id)>>
              \o InterpolationCallsRepeated(Tail(specs), ccd, pop)

\* The invocations of get_interpolated_covariate_values the loop makes, up to
\* the iteration that raises
RECURSIVE InterpolationCalls(_, _, _)
InterpolationCalls(specs, ccd, pop) ==
    IF specs = <<>> THEN <<>>
    ELSE LET c == Head(specs) IN
         IF c.study_country # "country"
         THEN InterpolationCalls(Tail(specs), ccd, pop)
         ELSE IF c.covariate_id \notin DOMAIN ccd \/ IsNone(pop) THEN <<>>
         ELSE <<Event("get_interpolated_covariate_values", c.covariate_id)>>
              \o InterpolationCalls(Tail(specs), ccd, pop)

\* {c.covariate_id: c.configure_for_dismod() for c in self.covariate_data}
CountryCovariateDict(cds) ==
    [id \in {cds[i].covariate_id : i \in 1..Len(cds)} |->
        CovariateConfigureForDismod(
            cds[CHOOSE i \in 1..Len(cds) :
                    /\ cds[i].covariate_id = id
                    /\ \A j \in (i + 1)..Len(cds) : cds[j].covariate_id # id])]

\* The last four statements of configure_inputs_for_dismod
FinishFrame(df) ==
    LET dropped == DropColumn(df, "age_group_id")
        sexed == SetColumn(dropped, "s_sex",
                     [i \in 1..Len(dropped.rows) |->
                         IF dropped.rows[i].sex_id \in DOMAIN SEX_MAP
                         THEN Num(SEX_MAP[dropped.rows[i].sex_id]) ELSE NaN])
        oned == SetColumn(sexed, "s_one", [i \in 1..Len(sexed.rows) |-> 1])
    IN SetColumn(oned, "hold_out",
           [i \in 1..Len(oned.rows) |->
               IF oned.rows[i].hold_out.nan THEN Num(0) ELSE oned.rows[i].hold_out])

\* MeasurementInputs.configure_inputs_for_dismod: the object after the call,
\* with what the call raised and the row counts its sources returned. Every
\* assignment made before a raising statement stays made.
Configured(settings) ==
    LET Result(obj, raised, counts, events) ==
            [self |-> obj,
             call |-> Call("configure_inputs_for_dismod", Some(settings),
                           raised, None, counts, events)]
        mapped == <<Event("data_eta_from_settings", 0),
                    Event("density_from_settings", 0),
                    Event("nu_from_settings", 0),
                    Event("measures_to_exclude_from_settings", 0)>>
        assembled == mapped \o <<Event("concat", 0), Event("density", 0),
                                 Event("eta", 0), Event("nu", 0)>>
        eta == data_eta_from_settings(settings)
        den == density_from_settings(settings)
        nuv == nu_from_settings(settings)
        excl == measures_to_exclude_from_settings(settings)
        maps == [self EXCEPT !.data_eta = Some(eta.value),
                             !.density = Some(den.value),
                             !.nu = Some(nuv),
                             !.measures_to_exclude = Some(excl)]
    IN
    IF eta.raised # "" THEN Result(self, eta.raised, None, SubSeq(mapped, 1, 1))
    ELSE IF den.raised # ""
    THEN Result([self EXCEPT !.data_eta = Some(eta.value)], den.raised, None,
                SubSeq(mapped, 1, 2))
    ELSE IF IsNone(self.data) \/ IsNone(self.asdr) \/ IsNone(self.csmr)
    THEN Result(maps, "AttributeError", None, mapped)
    ELSE
    LET frames == <<CrosswalkConfigureForDismod(self.data[1], excl),
                    RateConfigureForDismod(self.asdr[1]),
                    RateConfigureForDismod(self.csmr[1])>>
        counts == Some([i \in 1..3 |-> Len(frames[i].rows)])
        d0 == Concat(frames)
        keys == [i \in 1..Len(d0.rows) |-> StrKey(d0.rows[i].measure)]
        d1 == SetColumn(d0, "density",
                        [i \in 1..Len(keys) |-> GetItem(den.value, keys[i])])
        d2 == SetColumn(d1, "eta",
                        [i \in 1..Len(keys) |-> GetItem(eta.value, keys[i])])
        d3 == SetColumn(d2, "nu",
                        [i \in 1..Len(keys) |-> GetItem(nuv, keys[i])])
        joined == [maps EXCEPT !.density = Some(AfterGetItems(den.value, keys)),
                               !.data_eta = Some(AfterGetItems(eta.value, keys)),
                               !.nu = Some(AfterGetItems(nuv, keys)),
                               !.dismod_data = Some(d3)]
    IN
    IF IsNone(self.covariate_data) THEN Result(joined, "TypeError", counts, assembled)
    ELSE
    LET ccd == CountryCovariateDict(self.covariate_data[1])
        specs == CovariateSpecs(settings.country_covariate)
        interp == interpolate_country_covariate_values(specs, d3, ccd, self.population)
        specced == [joined EXCEPT !.country_covariate_data = Some(ccd),
                                  !.covariate_specs = Some(specs)]
        interpolated == assembled \o InterpolationCalls(specs, ccd, self.population)
    IN
    IF interp.raised # ""
    THEN Result([specced EXCEPT !.dismod_data = Some(interp.value)],
                interp.raised, counts, interpolated)
    ELSE Result([specced EXCEPT !.dismod_data = Some(FinishFrame(interp.value))],
                "", counts, interpolated \o <<Event("drop", 0)>>)

configure_inputs_for_dismod(settings) ==
    LET after == Configured(settings) IN
    /\ self' = after.self
    /\ call' = after.call
    /\ UNCHANGED xw_rows

----
\* MeasurementInputs.get_covariate_reference_max_diff

BOTH_SEX == 3

\* Every location below the parent, not only its direct children
descendants(dag, parent) ==
    LET below == {e[2] : e \in {d \in dag : d[1] = parent}}
    IN below \cup {e[2] : e \in {d \in dag : d[1] \in below}}

\* self.location_dag.dag.successors(parent_location_id)
successors(dag, parent) == {e[2] : e \in {d \in dag : d[1] = parent}}

\* The filter applied to the object's own population frame instead of a copy
ParentPopulationInPlace(obj, parent) ==
    LET kept == SelectSeq(obj.population[1].raw, LAMBDA r : r.location_id = parent)
    IN [self |-> [obj EXCEPT !.population = Some([raw |-> kept])], pop_df |-> kept]

\* pop_df = self.population.raw; pop_df = pop_df.loc[pop_df.location_id == parent].copy()
\* The local name is rebound to a filtered copy; the object keeps its frame.
ParentPopulation(obj, parent) ==
    [self |-> obj,
     pop_df |-> SelectSeq(obj.population[1].raw, LAMBDA r : r.location_id = parent)]

\* np.max(np.abs(all_loc_df.mean_value - reference_value)): NaN when the frame
\* has no rows
MaxAbsDifference(rows, reference) ==
    IF rows = <<>> THEN NaN
    ELSE LET diffs == {Abs(rows[i].mean_value - reference.val) : i \in 1..Len(rows)}
         IN Num(CHOOSE m \in diffs : \A d \in diffs : m >= d)

\* pd.DataFrame({'real_covariate_id': c_id, 'reference': reference_value,
\*               'max_difference': max_difference}): one row per element of the
\* array-valued column; with scalars only, pandas raises ValueError
ReferenceRows(c_id, reference, max_difference) ==
    IF reference.scalar THEN Raise("ValueError")
    ELSE Ok([i \in 1..Len(reference.values) |->
                [real_covariate_id |-> c_id,
                 reference |-> reference.values[i],
                 max_difference |-> max_difference]])

\* The loop over self.country_covariate_id: obj is the object, table the rows
\* appended to ref_max so far
RECURSIVE ReferenceLoop(_, _, _, _, _)
ReferenceLoop(c_ids, obj, table, parent, window) ==
    IF c_ids = <<>> THEN [self |-> obj, raised |-> "", ref_max |-> Some(table)]
    ELSE
    LET c_id == Head(c_ids)
        Failed(e) == [self |-> obj, raised |-> e, ref_max |-> None]
    IN
    IF IsNone(obj.country_covariate_data) THEN Failed("TypeError")
    ELSE IF c_id \notin DOMAIN obj.country_covariate_data[1] THEN Failed("KeyError")
    ELSE
    LET cov_df == obj.country_covariate_data[1][c_id]
        children == successors(obj.location_dag[1].dag, parent)
        parent_df == SelectSeq(cov_df, LAMBDA r : r.location_id = parent)
        child_df == SelectSeq(cov_df, LAMBDA r : r.location_id \in children)
        all_loc_df == child_df \o parent_df
    IN
    IF cov_df = <<>>
    THEN LET made == ReferenceRows(c_id, [scalar |-> TRUE, values |-> <<Num(0)>>],
                                   MaxAbsDifference(all_loc_df, Num(0)))
         IN IF made.raised # "" THEN Failed(made.raised)
            ELSE ReferenceLoop(Tail(c_ids), obj, table \o made.value, parent, window)
    ELSE IF IsNone(obj.population) THEN Failed("AttributeError")
    ELSE
    LET pp == ParentPopulation(obj, parent)
        df_to_interp == <<[location_id |-> parent, sex_id |-> BOTH_SEX,
                           age_lower |-> window.age_min, age_upper |-> window.age_max,
                           time_lower |-> window.time_min,
                           time_upper |-> window.time_max]>>
        reference_value ==
            get_interpolated_covariate_values(df_to_interp, parent_df, pp.pop_df)
        made == ReferenceRows(c_id, [scalar |-> FALSE, values |-> reference_value],
                              MaxAbsDifference(all_loc_df, reference_value[1]))
    IN IF made.raised # "" THEN [self |-> pp.self, raised |-> made.raised, ref_max |-> None]
       ELSE ReferenceLoop(Tail(c_ids), pp.self, table \o made.value, parent, window)

\* The invocations of get_interpolated_covariate_values the loop makes, up to
\* the iteration that raises
RECURSIVE ReferenceCalls(_, _)
ReferenceCalls(c_ids, obj) ==
    IF c_ids = <<>> \/ IsNone(obj.country_covariate_data) THEN <<>>
    ELSE IF Head(c_ids) \notin DOMAIN obj.country_covariate_data[1] THEN <<>>
    ELSE IF obj.country_covariate_data[1][Head(c_ids)] = <<>> THEN <<>>
    ELSE IF IsNone(obj.population) THEN <<>>
    ELSE <<Event("get_interpolated_covariate_values", Head(c_ids))>>
         \o ReferenceCalls(Tail(c_ids), obj)

\* The object after the call, what the call raised and the table it returned
ReferenceMaxDiff(parent) ==
    IF IsNone(self.dismod_data) \/ IsNone(self.location_dag)
    THEN [self |-> self, raised |-> "AttributeError", ref_max |-> None]
    ELSE LET df == self.dismod_data[1]
             window == [age_min |-> SeriesMin(Column(df, "age_lower")),
                        age_max |-> SeriesMax(Column(df, "age_upper")),
                        time_min |-> SeriesMin(Column(df, "time_lower")),
                        time_max |-> SeriesMax(Column(df, "time_upper"))]
         IN ReferenceLoop(self.country_covariate_id, self, <<>>, parent, window)

get_covariate_reference_max_diff(parent_location_id) ==
    LET r == ReferenceMaxDiff(parent_location_id) IN
    /\ self' = r.self
    /\ call' = Call("get_covariate_reference_max_diff", Some(parent_location_id),
                    r.raised, r.ref_max, None,
                    IF IsNone(self.dismod_data) \/ IsNone(self.location_dag)
                    THEN <<>> ELSE ReferenceCalls(self.country_covariate_id, self))
    /\ UNCHANGED xw_rows

----
Next ==
    \/ \E fails \in 0..Len(Adapters) : get_raw_inputs(fails)
    \/ \E settings \in Settings : configure_inputs_for_dismod(settings)
    \/ \E parent \in Locations : get_covariate_reference_max_diff(parent)

Spec == Init /\ [][Next]_vars

----
\* Vocabulary of the properties

RawSlots == <<self.asdr, self.csmr, self.data, self.covariate_data,
              self.location_dag, self.population>>

\* Every raw-source slot is populated / none is
RawComplete == \A i \in 1..Len(RawSlots) : ~IsNone(RawSlots[i])
RawEmpty == \A i \in 1..Len(RawSlots) : IsNone(RawSlots[i])

\* The name of the interpolated column of a country covariate
CovariateColumn(id) == "c_" \o ToString(id)

\* The assembled dataset holds every derived column, the interpolated column of
\* every country covariate, and no missing hold_out
FullyPopulated(df) ==
    /\ {"density", "eta", "nu", "s_sex", "s_one"} \subseteq df.cols
    /\ \A i \in 1..Len(self.country_covariate_id) :
          CovariateColumn(self.country_covariate_id[i]) \in df.cols
    /\ \A i \in 1..Len(df.rows) : ~df.rows[i].hold_out.nan

\* The last call was configure_inputs_for_dismod and it returned
ConfigureReturned ==
    call.op = "configure_inputs_for_dismod" /\ call.raised = ""

\* configure_inputs_for_dismod has run to its end on complete raw inputs
IsConfigured ==
    /\ RawComplete
    /\ ~IsNone(self.dismod_data)
    /\ "s_one" \in self.dismod_data[1].cols

Queried == call.op = "get_covariate_reference_max_diff"

\* The covariates of the constructor whose configured series has no record
EmptySeriesIds ==
    IF IsNone(self.country_covariate_data) THEN {}
    ELSE {id \in DOMAIN self.country_covariate_data[1] :
             self.country_covariate_data[1][id] = <<>>}

\* The rows of a returned table that belong to covariate id
RowsOf(table, id) == {i \in 1..Len(table) : table[i].real_covariate_id = id}

----
\* C1: on a configured assembler get_covariate_reference_max_diff returns a
\* table with exactly one row for each covariate id of country_covariate_id,
\* whatever the parent location, also when a covariate's series is empty.
C1_OneRowPerCovariate ==
    (Queried /\ IsConfigured) =>
        /\ call.raised = ""
        /\ ~IsNone(call.ref_max)
        /\ Len(call.ref_max[1]) = Len(self.country_covariate_id)
        /\ \A i \in 1..Len(self.country_covariate_id) :
              Cardinality(RowsOf(call.ref_max[1], self.country_covariate_id[i])) = 1

\* C2: every row get_covariate_reference_max_diff returns has a max_difference
\* that is a number (not NaN) and is >= 0.
C2_MaxDifferenceDefined ==
    (Queried /\ ~IsNone(call.ref_max)) =>
        \A i \in 1..Len(call.ref_max[1]) :
            /\ ~call.ref_max[1][i].max_difference.nan
            /\ call.ref_max[1][i].max_difference.val >= 0

\* C3: for a covariate whose series is empty the call does not raise and
\* returns reference 0.0 and max_difference 0.0, for any parent location.
C3_EmptySeriesZero ==
    (Queried /\ IsConfigured) =>
        \A id \in EmptySeriesIds \cap SeqToSet(self.country_covariate_id) :
            /\ call.raised = ""
            /\ ~IsNone(call.ref_max)
            /\ \E i \in RowsOf(call.ref_max[1], id) :
                  /\ call.ref_max[1][i].reference = Num(0)
                  /\ call.ref_max[1][i].max_difference = Num(0)

\* C4: the assembler holds all six raw-source slots or none of them; a state
\* with some slots set and others None is not reachable.
C4_RawAllOrNothing == RawComplete \/ RawEmpty

\* C5: configure_inputs_for_dismod called when get_raw_inputs has not
\* completed raises and leaves no dataset in dismod_data.
C5_ConfigureNeedsRaw ==
    (call.op = "configure_inputs_for_dismod" /\ ~RawComplete) =>
        /\ call.raised # ""
        /\ IsNone(self.dismod_data)

\* C6: dismod_data is unset or fully populated (the interpolated column of
\* every country covariate and every derived column), in every state.
C6_NeverPartial ==
    IsNone(self.dismod_data) \/ FullyPopulated(self.dismod_data[1])

----
\* C7: the statistical configuration maps are total with fixed defaults.

\* The per-measure entries of a settings list all name a mapped measure id
EntriesMapped(by_integrand) ==
    \A i \in 1..Len(by_integrand) :
        by_integrand[i].integrand_measure_id \in DOMAIN integrand_map

\* The measure names a settings list gives an explicit entry
ExplicitNames(by_integrand) ==
    {integrand_map[by_integrand[i].integrand_measure_id] :
        i \in {j \in 1..Len(by_integrand) :
                  by_integrand[j].integrand_measure_id \in DOMAIN integrand_map}}

\* The last call was configure_inputs_for_dismod and it built the three maps
MapsBuilt ==
    /\ call.op = "configure_inputs_for_dismod"
    /\ EntriesMapped(call.arg[1].data_eta_by_integrand)
    /\ EntriesMapped(call.arg[1].data_density_by_integrand)

\* C7 as stated: a measure name without an explicit entry looks up nan in the
\* eta map, "gaussian" in the density map and nan in the nu map.
C7_FixedDefaults ==
    MapsBuilt =>
        /\ \A m \in MeasureNames \ ExplicitNames(call.arg[1].data_eta_by_integrand) :
              GetItem(self.data_eta[1], StrKey(m)) = NaN
        /\ \A m \in MeasureNames \ ExplicitNames(call.arg[1].data_density_by_integrand) :
              GetItem(self.density[1], StrKey(m)) = "gaussian"
        /\ \A m \in MeasureNames : GetItem(self.nu[1], StrKey(m)) = NaN

\* C7 amended: a measure name without an explicit entry looks up the map's
\* default: settings.eta.data when set and non-zero, else nan;
\* settings.model.data_density when set and non-empty, else "gaussian"; nan for nu.
C7_SettingsDefaults ==
    MapsBuilt =>
        LET st == call.arg[1]
            eta_default == IF ~IsNone(st.eta_data) /\ st.eta_data[1] # 0
                           THEN Num(st.eta_data[1]) ELSE NaN
            density_default == IF ~IsNone(st.data_density) /\ st.data_density[1] # ""
                               THEN st.data_density[1] ELSE "gaussian"
        IN /\ ~IsNone(self.data_eta) /\ ~IsNone(self.density) /\ ~IsNone(self.nu)
           /\ \A m \in MeasureNames \ ExplicitNames(st.data_eta_by_integrand) :
                 GetItem(self.data_eta[1], StrKey(m)) = eta_default
           /\ \A m \in MeasureNames \ ExplicitNames(st.data_density_by_integrand) :
                 GetItem(self.density[1], StrKey(m)) = density_default
           /\ \A m \in MeasureNames : GetItem(self.nu[1], StrKey(m)) = NaN

\* The maps were built from settings whose eta default is set and positive, and
\* a measure without an entry looks that default up
C7_Witness ==
    /\ MapsBuilt
    /\ call.arg[1].eta_data = Some(3)
    /\ GetItem(self.data_eta[1], StrKey("remission")) = Num(3)

----
\* C8: every row of the assembled dataset whose measure has an explicit entry
\* in data_eta_by_integrand / data_density_by_integrand carries that entry's
\* value in its eta / density column.
C8_JoinedByMeasureName ==
    (ConfigureReturned /\ IsConfigured) =>
        LET st == call.arg[1]
            df == self.dismod_data[1]
        IN \A i \in 1..Len(df.rows) :
            /\ \A j \in 1..Len(st.data_eta_by_integrand) :
                  LET e == st.data_eta_by_integrand[j] IN
                  integrand_map[e.integrand_measure_id] = df.rows[i].measure
                      => df.rows[i].eta = Num(e.value)
            /\ \A j \in 1..Len(st.data_density_by_integrand) :
                  LET e == st.data_density_by_integrand[j] IN
                  integrand_map[e.integrand_measure_id] = df.rows[i].measure
                      => df.rows[i].density = e.value

----
\* C9: get_covariate_reference_max_diff is a read-only query.

\* What a call with parent location q would raise and return now
Answer(q) ==
    LET r == ReferenceMaxDiff(q)
    IN [raised |-> r.raised, ref_max |-> r.ref_max]

\* C9: a call leaves dismod_data, country_covariate_data, population and the
\* location DAG (and the covariate ids) as they were, it returns what a single
\* call with its parent id returns on the object as it was, and a call repeated
\* with the same parent id returns the same again.
C9_ReadOnlyQuery ==
    [][call'.op = "get_covariate_reference_max_diff" =>
          /\ self'.dismod_data = self.dismod_data
          /\ self'.country_covariate_data = self.country_covariate_data
          /\ self'.population = self.population
          /\ self'.location_dag = self.location_dag
          /\ self'.country_covariate_id = self.country_covariate_id
          /\ [raised |-> call'.raised, ref_max |-> call'.ref_max]
                = Answer(call'.arg[1])
          /\ (call.op = call'.op /\ call.arg = call'.arg) => call' = call]_vars

\* A query on a configured assembler returned a table with two rows
C9_Witness ==
    /\ Queried /\ IsConfigured /\ call.raised = ""
    /\ Len(call.ref_max[1]) = 2

----
\* C10: after configure_inputs_for_dismod returns, the assembled dataset has as
\* many rows as the crosswalk, ASDR and CSMR configure_for_dismod calls
\* returned together.
C10_RowCountIsSum ==
    ConfigureReturned =>
        Len(self.dismod_data[1].rows)
            = call.counts[1][1] + call.counts[1][2] + call.counts[1][3]

\* configure returned with rows from all three sources, the crosswalk having
\* lost a row to the exclusions
C10_Witness ==
    /\ ConfigureReturned /\ IsConfigured
    /\ \A k \in 1..3 : call.counts[1][k] >= 1
    /\ call.counts[1][1] < xw_rows
    /\ Len(self.dismod_data[1].rows) >= 3

----
\* C11: whenever dismod_data is set, after configure_inputs_for_dismod returned
\* or raised, it has no age_group_id column.
C11_NoAgeGroupId ==
    (call.op = "configure_inputs_for_dismod" /\ ~IsNone(self.dismod_data))
        => "age_group_id" \notin self.dismod_data[1].cols

----
\* The last call was configure_inputs_for_dismod
ConfigureRan == call.op = "configure_inputs_for_dismod"

\* The positions of the steps of the last call that invoke the interpolation
\* engine, and those that invoke it for covariate c
EngineSteps ==
    {i \in DOMAIN call.events :
        call.events[i].step = "get_interpolated_covariate_values"}

EngineStepsFor(c) == {i \in EngineSteps : call.events[i].covariate_id = c}

\* The country covariates the settings of the last configure call specify
SpecifiedCovariates ==
    {call.arg[1].country_covariate[k].country_covariate_id :
        k \in DOMAIN call.arg[1].country_covariate}

\* The steps that build the eta, density and nu maps and join them to the rows
MapSteps ==
    {"data_eta_from_settings", "density_from_settings", "nu_from_settings",
     "density", "eta", "nu"}

\* C12: in one configure_inputs_for_dismod run the interpolation engine is
\* invoked once for every country covariate of the settings when the run
\* returns and never twice for one, every invocation comes after every raw
\* fetch and after the eta, density and nu maps were built and joined, and the
\* run makes no fetch.
C12_InterpolatedOncePerCovariate ==
    ConfigureRan =>
        /\ call.raised = "" =>
              \A c \in SpecifiedCovariates : Cardinality(EngineStepsFor(c)) = 1
        /\ \A i \in EngineSteps :
              /\ call.events[i].covariate_id \in SpecifiedCovariates
              /\ Cardinality(EngineStepsFor(call.events[i].covariate_id)) = 1
              /\ \A m \in MapSteps :
                    \E j \in 1..(i - 1) : call.events[j].step = m
        /\ EngineSteps # {} => RawComplete
        /\ \A i \in DOMAIN call.events : call.events[i].step # "fetch"

\* A configure run that returned after interpolating two country covariates
C12_Witness ==
    /\ ConfigureRan
    /\ call.raised = ""
    /\ Cardinality(EngineSteps) = 2
    /\ Cardinality(SpecifiedCovariates) = 2

----
\* The positions of the records of a covariate series located at the parent
\* location or at one of its direct children in the location DAG
NearRecords(series, parent) ==
    {k \in DOMAIN series :
        \/ series[k].location_id = parent
        \/ <<parent, series[k].location_id>> \in self.location_dag[1].dag}

\* The value interpolated for the parent location from a covariate series over
\* the whole time range of the assembled dataset
ParentReference(series, parent) ==
    InterpolatedValue(parent,
                      SeriesMin(Column(self.dismod_data[1], "time_lower")),
                      SeriesMax(Column(self.dismod_data[1], "time_upper")),
                      series, self.population[1].raw)

\* C13: for every covariate with a non-empty series, the max_difference of its
\* returned row is the largest |value - reference| over exactly the records at
\* the parent location or at one of its direct children (nan when there is no
\* such record: no record of another location contributes), and reference is
\* the value interpolated for the parent location.
C13_MaxOverParentAndChildren ==
    (Queried /\ call.raised = "" /\ ~IsNone(call.ref_max)) =>
        \A i \in 1..Len(call.ref_max[1]) :
            LET row == call.ref_max[1][i]
                parent == call.arg[1]
                series == self.country_covariate_data[1][row.real_covariate_id]
                near == NearRecords(series, parent)
                deviations ==
                    {Abs(series[k].mean_value - row.reference.val) : k \in near}
            IN series # <<>> =>
                  /\ row.reference = ParentReference(series, parent)
                  /\ near = {} => row.max_difference.nan
                  /\ near # {} =>
                        /\ ~row.max_difference.nan
                        /\ row.max_difference.val \in deviations
                        /\ \A d \in deviations : row.max_difference.val >= d

\* A returned table with a row of a covariate that has records at the parent,
\* at its children and at another location
C13_Witness ==
    /\ Queried /\ call.raised = "" /\ ~IsNone(call.ref_max)
    /\ \E i \in 1..Len(call.ref_max[1]) :
          LET series == self.country_covariate_data[1][call.ref_max[1][i].real_covariate_id]
              near == NearRecords(series, call.arg[1])
          IN /\ Cardinality(near) >= 2
             /\ near # DOMAIN series
             /\ ~call.ref_max[1][i].max_difference.nan
             /\ call.ref_max[1][i].max_difference.val > 0

====
